---- MODULE Spec2Model ----
(***************************************************************************)
(* Model of src/app.py: the US phone normalizer (normalize_to_us_e164,     *)
(* build_phonumber_column) and the STOP list (load_stop_list,              *)
(* save_stop_list, the "Quitar numeros con STOP" button and the sidebar    *)
(* upload handler).                                                        *)
(*                                                                         *)
(* A text is a sequence of characters, each character a one-element        *)
(* string; the token "sup2" stands for the character U+00B2 (superscript   *)
(* two), for which Python's str.isdigit() is True although it is no        *)
(* decimal digit.  A cell value as pandas hands it to the program is a     *)
(* record [t, v]: t is the Python type pandas inferred ("str", "int",      *)
(* "float") or "nan" for a missing value, and v is the text str() gives.   *)
(***************************************************************************)
EXTENDS Integers, Sequences, FiniteSets, TLC

VARIABLES
    stop_file,      \* content of STOP_FILE (stop_list.csv) on disk
    file_before,    \* STOP_FILE as the last run of the script found it
    df,             \* the table read from the uploaded file, or NoTable
    keep_plus,      \* the toggle
    df_out,         \* build_phonumber_column's result, a sequence of texts
    stop_list,      \* load_stop_list() of line 101, the filter's list
    df_filtered,    \* df_filtered of this run (<<>> when none was built)
    removed_count,  \* removed_count of this run (0 when none was built)
    msg,            \* what the main page showed for the button
    sidebar_list,   \* load_stop_list() of line 128, the sidebar's list
    sidebar_msg,    \* what the sidebar showed for the upload
    uploaded_stop,  \* the file in the sidebar uploader, or NoFile
    accepted,       \* the last upload that was saved, or NoFile
    op,             \* the interaction that started the last run
    n_raw,          \* the raw value the normalizer is applied to
    n_keep,         \* its keep_plus
    n_out,          \* normalize_to_us_e164(n_raw, n_keep)
    n_out1,         \* normalize_to_us_e164("1" + n_raw, n_keep)
    n_done          \* which of the two have been computed

stop_vars == <<stop_file, file_before, df, keep_plus, df_out, stop_list,
               df_filtered, removed_count, msg, sidebar_list, sidebar_msg,
               uploaded_stop, accepted, op>>

norm_vars == <<n_raw, n_keep, n_out, n_out1, n_done>>

vars == <<stop_vars, norm_vars>>

(***************************************************************************)
(* Bounds of the model.                                                    *)
(***************************************************************************)
MaxRun == 6
MaxRows == 2
MaxStopRows == 3

(***************************************************************************)
(* Characters and texts.                                                   *)
(***************************************************************************)
AsciiDigits == {"0", "1", "2", "3", "4", "5", "6", "7", "8", "9"}

\* Characters with str.isdigit() True that are not decimal digits.
OtherDigits == {"sup2"}

RECURSIVE Rep(_, _)
Rep(ch, n) == IF n = 0 THEN <<>> ELSE <<ch>> \o Rep(ch, n - 1)

Range(s) == {s[i] : i \in 1..Len(s)}

\* ch.isdigit()
isdigit(ch) == ch \in AsciiDigits \cup OtherDigits

(***************************************************************************)
(* Values.                                                                 *)
(***************************************************************************)
NaN == [t |-> "nan", v |-> <<"n", "a", "n">>]
Str(text) == [t |-> "str", v |-> text]
IntVal(text) == [t |-> "int", v |-> text]
FloatVal(text) == [t |-> "float", v |-> text]

\* pd.isna(x)
isna(x) == x.t = "nan"

\* str(x)
str(x) == x.v

(***************************************************************************)
(* normalize_to_us_e164                                                    *)
(***************************************************************************)
\* A variant that strips a leading "1" before it looks at the length.
normalize_strip_first(raw, keepplus) ==
    IF isna(raw) THEN <<>>
    ELSE LET s == str(raw)
             digits == SelectSeq(s, isdigit)
             core == IF Len(digits) > 0 /\ digits[1] = "1"
                     THEN SubSeq(digits, 2, Len(digits)) ELSE digits
         IN  IF Len(core) = 10
             THEN (IF keepplus THEN <<"+", "1">> ELSE <<"1">>) \o core
             ELSE <<>>

normalize_to_us_e164(raw, keepplus) ==
    IF isna(raw) THEN <<>>
    ELSE LET s == str(raw)
             digits == SelectSeq(s, isdigit)
         IN  IF Len(digits) = 11 /\ digits[1] = "1"
             THEN (IF keepplus THEN <<"+", "1">> ELSE <<"1">>)
                      \o SubSeq(digits, 2, Len(digits))
             ELSE IF Len(digits) = 10
             THEN (IF keepplus THEN <<"+", "1">> ELSE <<"1">>) \o digits
             ELSE <<>>

(***************************************************************************)
(* build_phonumber_column                                                  *)
(***************************************************************************)
NoTable == [columns |-> <<>>, cells |-> <<>>, present |-> FALSE]
Table(name, cells) == [columns |-> <<name>>, cells |-> cells, present |-> TRUE]

build_phonumber_column(table, column, keepplus) ==
    IF column \notin Range(table.columns)
    THEN [raised |-> TRUE, phonumber |-> <<>>]
    ELSE [raised |-> FALSE,
          phonumber |-> [i \in 1..Len(table.cells) |->
                            normalize_to_us_e164(table.cells[i], keepplus)]]

(***************************************************************************)
(* CSV files and pandas.read_csv / DataFrame.to_csv.                       *)
(* A file keeps the name of its first column, the number of its columns    *)
(* and the cell texts of its first column; the other columns are dropped   *)
(* by the program before it looks at them.                                 *)
(***************************************************************************)
File(kind, name, ncols, cells) ==
    [kind |-> kind, name |-> name, ncols |-> ncols, cells |-> cells]

Absent == File("absent", "", 0, <<>>)        \* no such file
Unreadable == File("unreadable", "", 0, <<>>)  \* read_csv raises
NoCols == File("nocols", "", 0, <<>>)        \* read_csv gives no columns
NoFile == File("none", "", 0, <<>>)          \* nothing in the uploader
Csv(name, ncols, cells) == File("csv", name, ncols, cells)

\* The texts read_csv takes for a missing value (its default na_values).
NAStrings == { <<>>, <<"N", "A">>, <<"n", "a", "n">>, <<"N", "a", "N">>,
               <<"n", "u", "l", "l">>, <<"N", "U", "L", "L">>,
               <<"N", "o", "n", "e">>, <<"N", "/", "A">>, <<"n", "/", "a">> }

IsNAText(t) == t \in NAStrings

AllAscii(t) == \A i \in 1..Len(t) : t[i] \in AsciiDigits

Unsigned(t) == IF Len(t) > 0 /\ t[1] \in {"+", "-"} THEN Tail(t) ELSE t

\* The text parses as an int64: an optional sign and decimal digits.
IsIntText(t) == Len(Unsigned(t)) > 0 /\ AllAscii(Unsigned(t))

RECURSIVE StripZeros(_)
StripZeros(s) == IF Len(s) > 1 /\ s[1] = "0" THEN StripZeros(Tail(s)) ELSE s

RECURSIVE StripTrailingZeros(_)
StripTrailingZeros(s) ==
    IF Len(s) > 0 /\ s[Len(s)] = "0"
    THEN StripTrailingZeros(SubSeq(s, 1, Len(s) - 1)) ELSE s

\* str() of the int read from the text: no "+", no leading zeros.
IntCanon(t) ==
    LET body == StripZeros(Unsigned(t))
    IN  IF t[1] = "-" /\ body # <<"0">> THEN <<"-">> \o body ELSE body

Dots(t) == {i \in 1..Len(t) : t[i] = "."}

\* The text parses as a float with a decimal point: int "." digits.
IsFloatText(t) ==
    /\ Cardinality(Dots(t)) = 1
    /\ LET k == CHOOSE i \in Dots(t) : TRUE
       IN  /\ IsIntText(SubSeq(t, 1, k - 1))
           /\ AllAscii(SubSeq(t, k + 1, Len(t)))

\* repr() of the float read from the text (values below 1e16).
FloatCanon(t) ==
    IF IsIntText(t) THEN IntCanon(t) \o <<".", "0">>
    ELSE LET k == CHOOSE i \in Dots(t) : TRUE
             frac == StripTrailingZeros(SubSeq(t, k + 1, Len(t)))
         IN  IntCanon(SubSeq(t, 1, k - 1)) \o <<".">>
                 \o (IF frac = <<>> THEN <<"0">> ELSE frac)

\* read_csv's type inference for one column: int64 when every cell is an
\* integer, float64 when every cell is a number or missing, else object
\* (the texts themselves), a missing cell being NaN.
ParseColumn(cells) ==
    LET present(t) == ~IsNAText(t)
        nonna == SelectSeq(cells, present)
        hasna == Len(nonna) < Len(cells)
        allint == \A i \in 1..Len(nonna) : IsIntText(nonna[i])
        allnum == \A i \in 1..Len(nonna) :
                      IsIntText(nonna[i]) \/ IsFloatText(nonna[i])
    IN  IF allint /\ ~hasna
        THEN [i \in 1..Len(cells) |-> IntVal(IntCanon(cells[i]))]
        ELSE IF allnum
        THEN [i \in 1..Len(cells) |->
                 IF IsNAText(cells[i]) THEN NaN
                 ELSE FloatVal(FloatCanon(cells[i]))]
        ELSE [i \in 1..Len(cells) |->
                 IF IsNAText(cells[i]) THEN NaN ELSE Str(cells[i])]

\* A data frame: its column names and the values of its first column.
Frame(columns, data) == [raised |-> FALSE, columns |-> columns, data |-> data]
Raised == [raised |-> TRUE, columns |-> <<>>, data |-> <<>>]

OtherColumns(n) == [i \in 1..n |-> "other"]

\* pd.read_csv(file)
read_csv(file) ==
    IF file.kind = "csv"
    THEN Frame(<<file.name>> \o OtherColumns(file.ncols - 1),
               ParseColumn(file.cells))
    ELSE IF file.kind = "nocols" THEN Frame(<<>>, <<>>)
    ELSE Raised

\* The text to_csv writes for a value.
CellText(x) == IF isna(x) THEN <<>> ELSE x.v

\* frame.to_csv(path, index=False)
to_csv(frame) ==
    Csv(frame.columns[1], Len(frame.columns),
        [i \in 1..Len(frame.data) |-> CellText(frame.data[i])])

\* frame.dropna()
dropna(data) == LET notna(x) == ~isna(x) IN SelectSeq(data, notna)

\* A variant of drop_duplicates() that keeps every row.
keep_duplicates(data) == data

\* frame.drop_duplicates(): the first occurrence of each value is kept.
RECURSIVE drop_duplicates(_)
drop_duplicates(data) ==
    IF data = <<>> THEN <<>>
    ELSE LET init == drop_duplicates(SubSeq(data, 1, Len(data) - 1))
             last == data[Len(data)]
         IN  IF last \in Range(init) THEN init ELSE Append(init, last)

\* rename the first column to "phonumber", keep only it, dropna,
\* drop_duplicates, reset_index(drop=True) (app.py 41-45 and 142-146)
clean_first_column(frame) ==
    Frame(<<"phonumber">>, drop_duplicates(dropna(frame.data)))

\* pd.DataFrame(columns=["phonumber"])
EmptyStop == Frame(<<"phonumber">>, <<>>)

(***************************************************************************)
(* load_stop_list and save_stop_list                                       *)
(***************************************************************************)
\* A variant without the try/except around read_csv.
load_stop_list_unguarded(file) ==
    IF file.kind # "absent"
    THEN LET frame == read_csv(file)
         IN  IF frame.raised THEN Raised
             ELSE IF Len(frame.columns) = 0 THEN EmptyStop
             ELSE clean_first_column(frame)
    ELSE EmptyStop

load_stop_list(file) ==
    IF file.kind # "absent"
    THEN LET frame == read_csv(file)
         IN  IF frame.raised THEN EmptyStop
             ELSE IF Len(frame.columns) = 0 THEN EmptyStop
             ELSE clean_first_column(frame)
    ELSE EmptyStop

\* A variant of load_stop_list that writes the cleaned list back.
file_after_load_rewrites(file) ==
    IF file.kind = "absent" THEN file ELSE to_csv(load_stop_list(file))

\* STOP_FILE after load_stop_list(): it only reads.
file_after_load(file) == file

\* STOP_FILE after save_stop_list(frame)
save_stop_list(frame) == to_csv(frame)

(***************************************************************************)
(* The button "Quitar numeros con STOP" (app.py 103-123).                  *)
(***************************************************************************)
\* df_out[~df_out["phonumber"].isin(stop_list["phonumber"])]: a row is
\* dropped when its text, a Python str, equals a value of the list.
not_isin(phonumber, stop) ==
    LET kept(c) == Str(c) \notin Range(stop) IN SelectSeq(phonumber, kept)

\* A variant that tests the candidates, not the list, for emptiness.
stop_filter_tests_candidates(phonumber, stop) ==
    IF phonumber # <<>>
    THEN LET filtered == not_isin(phonumber, stop)
         IN  [msg |-> "success", df_filtered |-> filtered,
              removed_count |-> Len(phonumber) - Len(filtered)]
    ELSE [msg |-> "warning", df_filtered |-> <<>>, removed_count |-> 0]

stop_filter(phonumber, stop) ==
    IF stop # <<>>
    THEN LET filtered == not_isin(phonumber, stop)
         IN  [msg |-> "success", df_filtered |-> filtered,
              removed_count |-> Len(phonumber) - Len(filtered)]
    ELSE [msg |-> "warning", df_filtered |-> <<>>, removed_count |-> 0]

(***************************************************************************)
(* The sidebar upload handler (app.py 135-152).                            *)
(***************************************************************************)
\* A variant that saves an empty list when the upload has no columns.
upload_handler_saves_empty(up, file) ==
    LET new_stop == read_csv(up)
    IN  IF new_stop.raised
        THEN [msg |-> "error", file |-> file, saved |-> FALSE]
        ELSE IF Len(new_stop.columns) = 0
        THEN [msg |-> "error_empty", file |-> save_stop_list(EmptyStop),
              saved |-> FALSE]
        ELSE [msg |-> "success",
              file |-> save_stop_list(clean_first_column(new_stop)),
              saved |-> TRUE]

upload_handler(up, file) ==
    LET new_stop == read_csv(up)
    IN  IF new_stop.raised
        THEN [msg |-> "error", file |-> file, saved |-> FALSE]
        ELSE IF Len(new_stop.columns) = 0
        THEN [msg |-> "error_empty", file |-> file, saved |-> FALSE]
        ELSE [msg |-> "success",
              file |-> save_stop_list(clean_first_column(new_stop)),
              saved |-> TRUE]

(***************************************************************************)
(* One run of the script, top to bottom, as Streamlit does it after every  *)
(* interaction.                                                            *)
(***************************************************************************)
\* app.py 64-123: nothing when no file is chosen; else the column, the
\* list of line 101 and, when the button was pressed, the filter.
MainPart(table, kp, button, file) ==
    IF ~table.present
    THEN [crashed |-> FALSE, df_out |-> <<>>, stop_list |-> <<>>,
          filter |-> [msg |-> "none", df_filtered |-> <<>>,
                      removed_count |-> 0],
          file |-> file]
    ELSE LET built == build_phonumber_column(table, table.columns[1], kp)
             loaded == load_stop_list(file)
         IN  [crashed |-> built.raised \/ loaded.raised,
              df_out |-> built.phonumber,
              stop_list |-> loaded.data,
              filter |-> IF button /\ ~built.raised /\ ~loaded.raised
                         THEN stop_filter(built.phonumber, loaded.data)
                         ELSE [msg |-> "none", df_filtered |-> <<>>,
                               removed_count |-> 0],
              file |-> file_after_load(file)]

\* app.py 126-152: the list of line 128, then the upload handler when the
\* uploader holds a file.
SidebarPart(up, file) ==
    LET loaded == load_stop_list(file)
        after == file_after_load(file)
    IN  IF loaded.raised
        THEN [crashed |-> TRUE, sidebar_list |-> <<>>, msg |-> "none",
              file |-> after, saved |-> FALSE]
        ELSE IF up.kind = "none"
        THEN [crashed |-> FALSE, sidebar_list |-> loaded.data,
              msg |-> "none", file |-> after, saved |-> FALSE]
        ELSE LET h == upload_handler(up, after)
             IN  [crashed |-> FALSE, sidebar_list |-> loaded.data,
                  msg |-> h.msg, file |-> h.file, saved |-> h.saved]

\* The sidebar of a run whose main page ended in an exception is not drawn.
SidebarOf(main, up) ==
    IF main.crashed
    THEN [crashed |-> TRUE, sidebar_list |-> <<>>, msg |-> "none",
          file |-> main.file, saved |-> FALSE]
    ELSE SidebarPart(up, main.file)

Run(table, kp, button, up, name) ==
    \E main \in {MainPart(table, kp, button, stop_file)} :
      \E side \in {SidebarOf(main, up)} :
        /\ df' = table
        /\ keep_plus' = kp
        /\ uploaded_stop' = up
        /\ op' = name
        /\ file_before' = stop_file
        /\ df_out' = main.df_out
        /\ stop_list' = main.stop_list
        /\ df_filtered' = main.filter.df_filtered
        /\ removed_count' = main.filter.removed_count
        /\ msg' = IF main.crashed \/ side.crashed THEN "exception"
                  ELSE main.filter.msg
        /\ sidebar_list' = side.sidebar_list
        /\ sidebar_msg' = side.msg
        /\ stop_file' = side.file
        /\ accepted' = IF side.saved THEN up ELSE accepted
        /\ UNCHANGED norm_vars

(***************************************************************************)
(* The inputs.                                                             *)
(***************************************************************************)
Five9 == Rep("5", 9)
Phone10 == Five9 \o <<"5">>                    \* 5555555555
Phone11 == <<"1">> \o Phone10                  \* 15555555555
PlusPhone == <<"+">> \o Phone11                \* +15555555555
Pretty == <<"(">> \o Rep("5", 3) \o <<")", " ">> \o Rep("5", 3) \o <<"-">>
              \o Rep("5", 4)                   \* (555) 555-5555
Other10 == Five9 \o <<"6">>                    \* 5555555556

RECURSIVE SeqsUpTo(_, _)
SeqsUpTo(S, n) ==
    IF n = 0 THEN {<<>>}
    ELSE LET shorter == SeqsUpTo(S, n - 1)
         IN  shorter \cup {Append(s, x) : s \in shorter, x \in S}

\* Cells of the first column of an uploaded STOP list.
StopCells == {<<>>, PlusPhone, Pretty}

\* Uploaded STOP lists: a first column of any name, one more column.
StopUploads ==
    {Csv("tel", 2, c) : c \in SeqsUpTo(StopCells, MaxStopRows)}
        \cup {Unreadable, NoCols}

\* STOP_FILE as the first run may find it: absent, damaged, or edited by
\* hand.
InitialStopFiles ==
    {Absent, Unreadable, NoCols, Csv("tel", 2, <<Phone11, <<>>, Phone11>>)}

\* Cells of the chosen column of the uploaded table.
RawCells == {Str(<<"+", "1", " ">> \o Pretty), Str(Other10), NaN}

Tables == {Table("Telefono", c) : c \in SeqsUpTo(RawCells, MaxRows)}

\* The STOP lists uploaded in the sessions that filter.
FilterUploads ==
    {Csv("tel", 2, c) : c \in { <<Phone11>>, <<PlusPhone>>,
                                <<PlusPhone, Pretty>>, <<Phone11, <<>>>>,
                                <<<<>>>>, <<Other10, Phone11, Other10>> }}
        \cup {Unreadable}

(***************************************************************************)
(* Sessions that manage the STOP list (no table is chosen).                *)
(***************************************************************************)
NormIdle ==
    /\ n_raw = NaN
    /\ n_keep = TRUE
    /\ n_out = <<>>
    /\ n_out1 = <<>>
    /\ n_done = {}

InitRun(files) ==
    /\ stop_file \in files
    /\ file_before = stop_file
    /\ df = NoTable
    /\ keep_plus = TRUE
    /\ df_out = <<>>
    /\ stop_list = <<>>
    /\ df_filtered = <<>>
    /\ removed_count = 0
    /\ msg = "none"
    /\ sidebar_list = <<>>
    /\ sidebar_msg = "none"
    /\ uploaded_stop = NoFile
    /\ accepted = NoFile
    /\ op = "start"

Init == InitRun(InitialStopFiles) /\ NormIdle

\* The user puts a file into the sidebar uploader.
UploadStop(files) ==
    \E f \in files : Run(df, keep_plus, FALSE, f, "upload")

\* The user takes the file out of the sidebar uploader.
ClearStop ==
    /\ uploaded_stop # NoFile
    /\ Run(df, keep_plus, FALSE, NoFile, "clear")

\* Any other interaction: the script runs again with the same widgets.
Rerun == Run(df, keep_plus, FALSE, uploaded_stop, "rerun")

Next ==
    \/ UploadStop(StopUploads)
    \/ ClearStop
    \/ Rerun

Spec == Init /\ [][Next]_vars

(***************************************************************************)
(* Sessions that normalize a table and filter it.                          *)
(***************************************************************************)
InitFilter ==
    InitRun({Absent, Csv("tel", 2, <<Phone11, <<>>, Phone11>>)}) /\ NormIdle

\* The user chooses a file and a column, or flips the toggle.
SelectInput ==
    \E t \in Tables, kp \in BOOLEAN :
        Run(t, kp, FALSE, uploaded_stop, "select")

\* The user presses "Quitar numeros con STOP".
PressFilter ==
    /\ df.present
    /\ Run(df, keep_plus, TRUE, uploaded_stop, "filter")

NextFilter ==
    \/ SelectInput
    \/ PressFilter
    \/ UploadStop(FilterUploads)
    \/ ClearStop

SpecFilter == InitFilter /\ [][NextFilter]_vars

(***************************************************************************)
(* The normalizer applied to one raw value.                                *)
(***************************************************************************)
\* Raw texts: a prefix, a run of one digit, a separator, a run of another.
RawTexts ==
    {pre \o Rep(d1, n) \o mid \o Rep(d2, m) :
        pre \in {<<>>, <<"+">>, <<"1">>},
        d1 \in {"1", "5"},
        n \in 0..MaxRun,
        mid \in {<<>>, <<"-">>, <<"sup2">>, <<"1">>},
        d2 \in {"5", "0"},
        m \in 0..MaxRun}

StopIdle == InitRun({Absent})

InitNorm ==
    /\ StopIdle
    /\ n_raw \in {Str(t) : t \in RawTexts} \cup {NaN}
    /\ n_keep \in BOOLEAN
    /\ n_out = <<>>
    /\ n_out1 = <<>>
    /\ n_done = {}

\* normalize_to_us_e164(raw, keep_plus)
NormalizeRaw ==
    /\ "raw" \notin n_done
    /\ n_out' = normalize_to_us_e164(n_raw, n_keep)
    /\ n_done' = n_done \cup {"raw"}
    /\ UNCHANGED <<n_raw, n_keep, n_out1, stop_vars>>

\* normalize_to_us_e164("1" + raw, keep_plus)
NormalizePrefixed ==
    /\ "one" \notin n_done
    /\ ~isna(n_raw)
    /\ n_out1' = normalize_to_us_e164(Str(<<"1">> \o str(n_raw)), n_keep)
    /\ n_done' = n_done \cup {"one"}
    /\ UNCHANGED <<n_raw, n_keep, n_out, stop_vars>>

NextNorm ==
    \/ NormalizeRaw
    \/ NormalizePrefixed

SpecNorm == InitNorm /\ [][NextNorm]_vars

(***************************************************************************)
(* Properties.                                                             *)
(***************************************************************************)
Ran == op # "start" /\ msg # "exception"

\* The list of the sidebar was read from the file now on disk.
ListIsCurrent == Ran /\ stop_file = file_before

TextsOf(list) == [i \in 1..Len(list) |-> str(list[i])]

RECURSIVE UniqueFirst(_)
UniqueFirst(s) ==
    IF s = <<>> THEN <<>>
    ELSE LET init == UniqueFirst(SubSeq(s, 1, Len(s) - 1))
         IN  IF \E i \in 1..Len(init) : init[i] = s[Len(s)]
             THEN init ELSE Append(init, s[Len(s)])

HasDuplicate(s) == \E i, j \in 1..Len(s) : i < j /\ s[i] = s[j]

DecimalDigits(t) == LET decimal(ch) == ch \in AsciiDigits IN SelectSeq(t, decimal)

\* The result the specification gives for a raw value: only the decimal
\* digits D of its text count.
SpecNormalize(raw, kp) ==
    IF isna(raw) THEN <<>>
    ELSE LET D == DecimalDigits(str(raw))
             core == IF Len(D) = 11 /\ D[1] = "1" THEN SubSeq(D, 2, 11)
                     ELSE IF Len(D) = 10 THEN D
                     ELSE <<>>
         IN  IF core = <<>> THEN <<>>
             ELSE (IF kp THEN <<"+", "1">> ELSE <<"1">>) \o core

\* The text is "" or matches ^\+?1\d{10}$.
IsCanonicalOrBlank(t) ==
    \/ t = <<>>
    \/ /\ Len(t) = 11 /\ t[1] = "1" /\ AllAscii(t)
    \/ /\ Len(t) = 12 /\ t[1] = "+" /\ t[2] = "1" /\ AllAscii(Tail(t))

\* C1: normalize(raw, keep_plus) is the result determined by the decimal
\* digits of raw's text alone ("" for a missing value, for no core; else
\* "+1"/"1" and the core), and every result is "" or matches ^\+?1\d{10}$.
C1_NormalizeByDecimalDigits ==
    "raw" \in n_done =>
        /\ n_out = SpecNormalize(n_raw, n_keep)
        /\ IsCanonicalOrBlank(n_out)

\* C10: for every string d of 10 decimal digits and both values of
\* keep_plus, normalize("1" + d, keep_plus) = normalize(d, keep_plus), also
\* when d begins with 1.
C10_LeadingOne ==
    ( /\ n_done = {"raw", "one"}
      /\ ~isna(n_raw)
      /\ Len(str(n_raw)) = 10
      /\ AllAscii(str(n_raw)) )
        => n_out1 = n_out

C10_Witness ==
    /\ n_done = {"raw", "one"}
    /\ ~isna(n_raw)
    /\ Len(str(n_raw)) = 10
    /\ AllAscii(str(n_raw))
    /\ str(n_raw)[1] = "1"
    /\ n_out1 = n_out
    /\ Len(n_out) = 11
    /\ ~n_keep

\* The rows the button leaves: the filtered table when one was built, the
\* candidates themselves when the button only warned.
Remaining == IF msg = "success" THEN df_filtered ELSE df_out

\* C2: the filter keeps exactly the candidates whose text equals the text
\* of no entry of the STOP list, in their order, and removed_count is the
\* number of rows left out.
C2_FilterRemovesListed ==
    (Ran /\ op = "filter") =>
        LET listed == {str(stop_list[i]) : i \in 1..Len(stop_list)}
            unlisted(c) == c \notin listed
        IN  /\ Remaining = SelectSeq(df_out, unlisted)
            /\ removed_count = Len(df_out) - Len(Remaining)

\* C6: with an empty STOP list the button leaves every candidate, in
\* order, removes none, and warns that the list is empty.
C6_EmptyStopKeepsAll ==
    (Ran /\ op = "filter" /\ stop_list = <<>>) =>
        /\ Remaining = df_out
        /\ removed_count = 0
        /\ msg = "warning"

C6_Witness ==
    /\ Ran
    /\ op = "filter"
    /\ stop_list = <<>>
    /\ Len(df_out) >= 2
    /\ df_out[1] # <<>>
    /\ msg = "warning"
    /\ Remaining = df_out

\* C3: a list load_stop_list() returns has no two equal entries, no
\* missing entry and no empty string.
C3_LoadedListClean ==
    \A list \in {stop_list, sidebar_list} :
        /\ ~HasDuplicate(list)
        /\ \A i \in 1..Len(list) : ~isna(list[i]) /\ str(list[i]) # <<>>

C3_Witness ==
    /\ ListIsCurrent
    /\ accepted.kind = "csv"
    /\ HasDuplicate(accepted.cells)
    /\ \E i \in 1..Len(accepted.cells) : accepted.cells[i] = <<>>
    /\ Len(sidebar_list) = 1
    /\ sidebar_list[1].t = "str"

\* C4: load() after an accepted upload returns the first-column values of
\* that upload, missing ones dropped, duplicates removed keeping the
\* first, in order, every value unchanged.
C4_LoadReturnsUploaded ==
    (ListIsCurrent /\ accepted.kind = "csv") =>
        LET present(t) == ~IsNAText(t)
        IN  TextsOf(sidebar_list)
                = UniqueFirst(SelectSeq(accepted.cells, present))

\* C5: an upload that cannot be read, or has no columns, is answered with
\* an error and leaves STOP_FILE as it was.
C5_RejectedUploadKeepsFile ==
    (Ran /\ uploaded_stop.kind \in {"unreadable", "nocols"}) =>
        /\ sidebar_msg \in {"error", "error_empty"}
        /\ stop_file = file_before

C5_Witness ==
    /\ Ran
    /\ op = "upload"
    /\ uploaded_stop.kind = "nocols"
    /\ sidebar_msg = "error_empty"
    /\ file_before.kind = "csv"
    /\ file_before.cells # <<>>
    /\ stop_file = file_before

\* C7: any two distinct entries of the list load() returns after an
\* accepted upload normalize to different phones, and none normalizes to
\* the blank sentinel.
C7_DistinctAfterNormalize ==
    (ListIsCurrent /\ accepted.kind = "csv") =>
        \A k \in BOOLEAN :
            /\ \A i \in 1..Len(sidebar_list) :
                   normalize_to_us_e164(sidebar_list[i], k) # <<>>
            /\ \A i, j \in 1..Len(sidebar_list) :
                   i # j => normalize_to_us_e164(sidebar_list[i], k)
                                # normalize_to_us_e164(sidebar_list[j], k)

\* C8: load() never raises: with STOP_FILE absent, unreadable or without
\* columns it returns the empty list, and the run goes on to the upload.
C8_LoadNeverRaises ==
    op # "start" =>
        /\ msg # "exception"
        /\ file_before.kind \in {"absent", "unreadable", "nocols"}
               => sidebar_list = <<>>
        /\ uploaded_stop.kind = "csv" => sidebar_msg = "success"

C8_Witness ==
    /\ op = "upload"
    /\ file_before.kind = "unreadable"
    /\ sidebar_list = <<>>
    /\ uploaded_stop.kind = "csv"
    /\ uploaded_stop.cells # <<>>
    /\ sidebar_msg = "success"
    /\ stop_file.kind = "csv"

\* C9: load() leaves STOP_FILE as it is: the two loads of one run return
\* the same list, and the file changes only in a run whose upload was
\* accepted.
C9_LoadOnlyReads ==
    Ran =>
        /\ df.present => stop_list = sidebar_list
        /\ stop_file # file_before => sidebar_msg = "success"

C9_Witness ==
    /\ Ran
    /\ df.present
    /\ uploaded_stop = NoFile
    /\ Len(sidebar_list) >= 2
    /\ stop_list = sidebar_list
    /\ stop_file = file_before

====
